---------------------------- MODULE Spec2Model ----------------------------
(***************************************************************************)
(* A model of cmd/lockbox/cmd/write.go: the `write` command, its five      *)
(* adapters (sample generator, blob, CSV, JSON, ORC-via-Parquet) and the   *)
(* batch concatenator.                                                     *)
(*                                                                         *)
(* Representation.  Every column entry and every JSON value is a record    *)
(* of one shape, [k, a, b, s]:                                             *)
(*   k = "null"                      a null entry                          *)
(*   k = "int"    a = n              an int32/int64 value                  *)
(*   k = "float"  a = m, b = e       the float64 m / 10^e                  *)
(*   k = "str"    s = text           a string                              *)
(*   k = "bytes"  s = content        a byte slice                          *)
(*   k = "ts"     a = q, b = r, s = unit   the int64 q * U + r, where U is *)
(*                the number of `unit`s in one second (the value does not  *)
(*                fit TLC's 32-bit integers, so it is kept in this mixed   *)
(*                radix: 1704067201000000 us is q = 1704067201, r = 0)     *)
(*   k = "bool" / "absent"           JSON only                             *)
(***************************************************************************)
EXTENDS Integers, Sequences, FiniteSets, TLC

VARIABLES
    pc,               \* position of the run inside RunE and the adapter it called
    inv,              \* the command's flags: [sample, format, input, blobs]
    schema,           \* lb.Schema(): a sequence of fields [name, type, nullable]
    builders,         \* the adapter's array builders, one per field
    fieldsPerRecord,  \* csv.Reader.FieldsPerRecord after the header was read
    consumed,         \* the data rows / records / batches read so far, in order
    last,             \* the row / record the adapter read last
    allBatches,       \* loadDataFromORCToParquet's allBatches (concatRecords' records)
    record,           \* the batch the adapter returned (or the nil record)
    outcome,          \* how the adapter / the run ended: running, ok, err, panic
    sink,             \* the records lb.Write was invoked with, in order
    dropped,          \* the error a call reported and the code did not return ("" if none)
    concatenated,     \* the arguments of each call of concatRecords, in order
    doc,              \* the JSON input file: its top-level values, in order
    records,          \* loadDataFromJSON's records slice
    offset,           \* the file position, counted in top-level values of doc
    stage             \* the decoding that filled records: "", array, failed, rewound, ndjson

vars == <<pc, inv, schema, builders, fieldsPerRecord, consumed, last,
          allBatches, record, outcome, sink, dropped, concatenated,
          doc, records, offset, stage>>

\* What loadDataFromJSON's decoding writes
decoder == <<records, offset, stage>>

----------------------------------------------------------------------------
(* Bounds                                                                  *)

MaxFields == 2
MaxRows == 2
MaxBatches == 2
MaxBatchRows == 1
MaxConcat == 4

\* csv rows are offered with 1 .. MaxFields + 1 fields
MaxCols == MaxFields + 1

----------------------------------------------------------------------------
(* Values                                                                  *)

Val(k, a, b, s) == [k |-> k, a |-> a, b |-> b, s |-> s]
NullV == Val("null", 0, 0, "")
IntV(n) == Val("int", n, 0, "")
FloatV(m, e) == Val("float", m, e, "")
StrV(s) == Val("str", 0, 0, s)
BytesV(s) == Val("bytes", 0, 0, s)
TsV(q, r, unit) == Val("ts", q, r, unit)
BoolV(t) == Val("bool", IF t THEN 1 ELSE 0, 0, "")
AbsentV == Val("absent", 0, 0, "")

----------------------------------------------------------------------------
(* Schema: arrow.Schema, arrow.Field, arrow.DataType                       *)

Type(id, unit) == [id |-> id, unit |-> unit]
Int32 == Type("Int32", "")
Int64 == Type("Int64", "")
Float64 == Type("Float64", "")
String == Type("String", "")
Binary == Type("Binary", "")
LargeBinary == Type("LargeBinary", "")
Timestamp(unit) == Type("Timestamp", unit)

\* arrow.Second, arrow.Millisecond, arrow.Microsecond, arrow.Nanosecond
TimeUnits == {"s", "ms", "us", "ns"}

DataTypes == {Int32, Int64, Float64, String, Binary, LargeBinary}
                 \cup {Timestamp(u) : u \in TimeUnits}

\* The name of the field at position i (names are unique within a schema).
FieldName(i) ==
    CASE i = 1 -> "id"
      [] i = 2 -> "age"
      [] i = 3 -> "name"
      [] i = 4 -> "email"
      [] OTHER -> "f" \o ToString(i)

Field(i, type, nullable) == [name |-> FieldName(i), type |-> type, nullable |-> nullable]

\* A schema of one field ranges over every type and nullability.  In a
\* longer schema the first field ranges over three types and the fields
\* after it over two definitions, which keeps the number of schemas small.
HeadDefs == [type : DataTypes, nullable : BOOLEAN]
LongHeadDefs == [type : {Int64, String, Timestamp("us")}, nullable : BOOLEAN]
TailDefs == {[type |-> Int32, nullable |-> FALSE], [type |-> Int32, nullable |-> TRUE]}

RECURSIVE SchemasOfLen(_, _)
SchemasOfLen(n, heads) ==
    IF n = 0 THEN {<<>>}
    ELSE IF n = 1 THEN {<<Field(1, d.type, d.nullable)>> : d \in heads}
    ELSE {Append(s, Field(n, d.type, d.nullable)) :
             s \in SchemasOfLen(n - 1, heads), d \in TailDefs}

Schemas ==
    SchemasOfLen(0, HeadDefs) \cup SchemasOfLen(1, HeadDefs)
        \cup UNION {SchemasOfLen(n, LongHeadDefs) : n \in 2..MaxFields}

\* arrow.TypeEqual for the types of the model
TypeEqual(t, u) == t = u

----------------------------------------------------------------------------
(* Builders, arrays and records: arrow/array                                *)

\* array.NewXxxBuilder(mem): an empty builder of one fixed type
NewBuilder(type) == [type |-> type, vals |-> <<>>]

\* builder.Append(v) / builder.AppendNull()
BAppend(b, v) == [b EXCEPT !.vals = Append(@, v)]

\* builder.NewArray(): the builder's entries as an array of its type
NewArray(b) == [type |-> b.type, vals |-> b.vals]

NilRecord == [nil |-> TRUE, schema |-> <<>>, cols |-> <<>>, rows |-> 0]

\* simpleRecord.validate, which array.NewRecord calls: nil or the error
RecordValidate(sch, arrs, nrows) ==
    IF nrows = 0 /\ Len(arrs) = 0 THEN "ok"
    ELSE IF Len(arrs) # Len(sch) THEN "number of columns/fields mismatch"
    ELSE IF \E i \in 1..Len(arrs) : Len(arrs[i].vals) < nrows
         THEN "mismatch number of rows"
    ELSE IF \E i \in 1..Len(arrs) : ~TypeEqual(sch[i].type, arrs[i].type)
         THEN "type mismatch"
    ELSE "ok"

\* array.NewRecord(schema, cols, nrows): the record, or a panic when
\* validate fails.  Outcomes are [kind, err, row, col, exp, got, rec].
Out(kind, err, rec) ==
    [kind |-> kind, err |-> err, row |-> 0, col |-> 0, exp |-> 0, got |-> 0, rec |-> rec]
Running == Out("running", "", NilRecord)
Ok(rec) == Out("ok", "", rec)
Err(msg) == Out("err", msg, NilRecord)
ErrAt(msg, row, col) == [Err(msg) EXCEPT !.row = row, !.col = col]
Panic(msg) == Out("panic", msg, NilRecord)

NewRecord(sch, arrs, nrows) ==
    LET v == RecordValidate(sch, arrs, nrows)
    IN  IF v = "ok"
        THEN Ok([nil |-> FALSE, schema |-> sch, cols |-> arrs, rows |-> nrows])
        ELSE Panic("arrow/array: " \o v)

----------------------------------------------------------------------------
(* strconv and time: the conversions the adapters apply to a literal.  A  *)
(* literal is a string; the tables give the digits a scan of it finds, and *)
(* the values are computed from those.                                     *)

\* strconv.ParseInt(s, 10, bits): the literals of the model that are decimal
\* integers (all of them within int32, so the bit size rejects none).
IntLits == [s \in {"1", "20"} |-> IF s = "1" THEN 1 ELSE 20]

ParseInt(s, bits) ==
    IF s \in DOMAIN IntLits THEN [ok |-> TRUE, v |-> IntV(IntLits[s])]
    ELSE [ok |-> FALSE, v |-> NullV]

\* strconv.ParseFloat(s, 64): mantissa and number of decimals
FloatLits == [s \in {"1", "20", "1.5"} |->
                 CASE s = "1" -> <<1, 0>> [] s = "20" -> <<20, 0>> [] OTHER -> <<15, 1>>]

ParseFloat(s) ==
    IF s \in DOMAIN FloatLits THEN [ok |-> TRUE, v |-> FloatV(FloatLits[s][1], FloatLits[s][2])]
    ELSE [ok |-> FALSE, v |-> NullV]

\* The RFC 3339 literals of the model and the fields time.Parse scans from
\* them: date, time of day, fraction in nanoseconds, zone offset in seconds.
TS_EXACT == "2024-01-01T00:00:01Z"
TS_FRAC == "2024-01-01T01:00:01.9999999+01:00"
TS_PRE == "1969-12-31T23:59:59.5000004Z"

Civil(Y, M, D, h, m, s, ns, off) ==
    [Y |-> Y, M |-> M, D |-> D, h |-> h, m |-> m, s |-> s, ns |-> ns, off |-> off]

RFC3339Lits ==
    [l \in {TS_EXACT, TS_FRAC, TS_PRE} |->
        CASE l = TS_EXACT -> Civil(2024, 1, 1, 0, 0, 1, 0, 0)
          [] l = TS_FRAC -> Civil(2024, 1, 1, 1, 0, 1, 999999900, 3600)
          [] OTHER -> Civil(1969, 12, 31, 23, 59, 59, 500000400, 0)]

\* Days from 1970-01-01 to the civil date (proleptic Gregorian), as time.Date
\* counts them.
DaysFromCivil(Y, M, D) ==
    LET y == IF M <= 2 THEN Y - 1 ELSE Y
        era == y \div 400
        yoe == y - era * 400
        mp == IF M > 2 THEN M - 3 ELSE M + 9
        doy == (153 * mp + 2) \div 5 + D - 1
        doe == yoe * 365 + yoe \div 4 - yoe \div 100 + doy
    IN  era * 146097 + doe - 719468

\* The time.Time of a civil reading: seconds since the epoch (floor) and the
\* nanoseconds within that second, 0 <= nsec < 10^9.
Instant(c) ==
    [sec |-> DaysFromCivil(c.Y, c.M, c.D) * 86400 + c.h * 3600 + c.m * 60 + c.s - c.off,
     nsec |-> c.ns]

\* time.Parse(time.RFC3339, s)
ParseTime(s) ==
    IF s \in DOMAIN RFC3339Lits THEN [ok |-> TRUE, tm |-> Instant(RFC3339Lits[s])]
    ELSE [ok |-> FALSE, tm |-> [sec |-> 0, nsec |-> 0]]

UnitsPerSecond(unit) ==
    CASE unit = "s" -> 1 [] unit = "ms" -> 1000 [] unit = "us" -> 1000000
      [] OTHER -> 1000000000

NanosPerUnit(unit) == 1000000000 \div UnitsPerSecond(unit)

\* A rounding projection: to the nearest unit (what the code does not do).
EpochRounded(unit, tm) ==
    LET k == NanosPerUnit(unit)
        r == (tm.nsec + k \div 2) \div k
    IN  IF unit # "ns" /\ r = UnitsPerSecond(unit) THEN TsV(tm.sec + 1, 0, unit)
        ELSE TsV(tm.sec, r, unit)

\* tm.Unix(), tm.UnixMilli(), tm.UnixMicro(), tm.UnixNano(), selected by the
\* field's unit: sec * U + nsec / (10^9 / U), kept as the pair (sec, nsec / ..).
Epoch(unit, tm) == TsV(tm.sec, tm.nsec \div NanosPerUnit(unit), unit)

----------------------------------------------------------------------------
(* The run's common steps                                                  *)

NumFields == Len(schema)

\* A return with an error or a panic: the run is over, nothing is kept.
Abort(e) ==
    /\ pc' = "done"
    /\ outcome' = e
    /\ builders' = <<>>
    /\ record' = NilRecord

\* The command lines of the model.  blobs is the set of field names
\* parseBlobArgs found a field=file mapping for.
Flags(sample, format, input, blobs) ==
    [sample |-> sample, format |-> format, input |-> input, blobs |-> blobs]

Names(sch) == {sch[i].name : i \in 1..Len(sch)}

Invocations(sch) ==
    {Flags(TRUE, "", FALSE, {}), Flags(TRUE, "csv", TRUE, {}),
     Flags(FALSE, "csv", TRUE, {}), Flags(FALSE, "json", TRUE, {}),
     Flags(FALSE, "orc", TRUE, {}), Flags(FALSE, "csv", FALSE, {}),
     Flags(FALSE, "", TRUE, {}), Flags(FALSE, "blob", TRUE, {})}
    \cup {Flags(FALSE, "blob", FALSE, b) : b \in (SUBSET Names(sch)) \ {{}}}
    \cup {Flags(FALSE, "blob", FALSE, {"other"})}

\* RunE up to the adapter: ensurePyarrowInstalled, the password (given or
\* read from the terminal), lockbox.Open.  Each may fail, which ends the run.
Prepare ==
    /\ pc = "start"
    /\ \E failed \in {"", "could not ensure pyarrow is installed",
                      "failed to read password", "failed to open lockbox"} :
          IF failed = ""
          THEN /\ pc' = "select"
               /\ UNCHANGED <<outcome, builders, record>>
          ELSE Abort(Err(failed))
    /\ UNCHANGED <<doc, decoder, inv, schema, fieldsPerRecord, consumed, last, allBatches, sink, dropped, concatenated>>

\* The branch RunE takes (the if / else-if chain over the flags).
Branch ==
    IF inv.sample THEN "sample"
    ELSE IF Cardinality(inv.blobs) > 0 /\ inv.format = "blob" THEN "blob"
    ELSE IF inv.input /\ inv.format = "csv" THEN "csv"
    ELSE IF inv.input /\ inv.format = "json" THEN "json"
    ELSE IF inv.input /\ inv.format = "orc" THEN "orc"
    ELSE "none"

\* The final else of the chain.
NoInput ==
    /\ pc = "select"
    /\ Branch = "none"
    /\ Abort(Err("either --input or --sample must be specified"))
    /\ UNCHANGED <<doc, decoder, inv, schema, fieldsPerRecord, consumed, last, allBatches, sink, dropped, concatenated>>

\* An adapter returned: RunE goes on to lb.Write with the record, or returns
\* the error; a panic ends the process.
Return(o) ==
    /\ outcome' = o
    /\ record' = o.rec
    /\ pc' = IF o.kind = "ok" THEN "write" ELSE "done"
    /\ builders' = <<>>

\* lb.Write(ctx, record, ...), once; its error is returned as it is.  A nil
\* record reaches record.Release() on either path, which panics.
Write ==
    /\ pc = "write"
    /\ sink' = Append(sink, record)
    /\ \E failed \in BOOLEAN :
          outcome' = IF record.nil THEN Panic("nil pointer dereference")
                     ELSE IF failed THEN Err("failed to write data")
                     ELSE Ok(record)
    /\ pc' = "done"
    /\ UNCHANGED <<doc, decoder, inv, schema, builders, fieldsPerRecord, consumed, last,
                   allBatches, record, dropped, concatenated>>

----------------------------------------------------------------------------
(* loadDataFromFile: the CSV adapter                                       *)

CsvSupported(type) == type.id \in {"Int64", "Int32", "Float64", "String", "Timestamp"}

\* The literals a cell of field i is drawn from: by its type for the first
\* field, three for the second, one for the fields after it.
CsvLiterals(i, type) ==
    IF i > 2 THEN {"20"}
    ELSE IF i = 2 THEN {"", "20", "x"}
    ELSE CASE type.id \in {"Int32", "Int64"} -> {"", "1", "20", "x"}
           [] type.id = "Float64" -> {"", "1", "1.5", "x"}
           [] type.id = "Timestamp" -> {"", TS_EXACT, TS_FRAC, TS_PRE, "x"}
           [] OTHER -> {"", "1", "x"}

AllLiterals == {"", "1", "20", "1.5", "x", TS_EXACT, TS_FRAC, TS_PRE}

\* The records csv.Reader.Read may yield: every row of the schema's length
\* over the cells' literals, and one row of each other length.
CsvRows(sch) ==
    {r \in [1..Len(sch) -> AllLiterals] :
        /\ Len(sch) > 0
        /\ \A i \in 1..Len(sch) : r[i] \in CsvLiterals(i, sch[i].type)}
    \cup {[i \in 1..n |-> "1"] : n \in (1..MaxCols) \ {Len(sch)}}

\* The switch over the field's type inside the row loop, for one cell:
\* a null, a value, or the error returned.
Cell(st, v, err) == [st |-> st, v |-> v, err |-> err]

\* A check the code does not make: an empty literal is never a null.
EmptyIsNullNever(f, val) == FALSE

\* `val == "" && field.Nullable`, the test before every AppendNull
EmptyIsNull(f, val) == val = "" /\ f.nullable

CoerceText(f, val) ==
    CASE f.type.id = "Int64" ->
            IF EmptyIsNull(f, val) THEN Cell("null", NullV, "")
            ELSE IF ParseInt(val, 64).ok THEN Cell("val", ParseInt(val, 64).v, "")
            ELSE Cell("err", NullV, "invalid int64")
      [] f.type.id = "Int32" ->
            IF EmptyIsNull(f, val) THEN Cell("null", NullV, "")
            ELSE IF ParseInt(val, 32).ok THEN Cell("val", ParseInt(val, 32).v, "")
            ELSE Cell("err", NullV, "invalid int32")
      [] f.type.id = "Float64" ->
            IF EmptyIsNull(f, val) THEN Cell("null", NullV, "")
            ELSE IF ParseFloat(val).ok THEN Cell("val", ParseFloat(val).v, "")
            ELSE Cell("err", NullV, "invalid float64")
      [] f.type.id = "String" ->
            IF EmptyIsNull(f, val) THEN Cell("null", NullV, "")
            ELSE Cell("val", StrV(val), "")
      [] f.type.id = "Timestamp" ->
            IF EmptyIsNull(f, val) THEN Cell("null", NullV, "")
            ELSE IF ParseTime(val).ok
                 THEN Cell("val", Epoch(f.type.unit, ParseTime(val).tm), "")
            ELSE Cell("err", NullV, "invalid timestamp")
      [] OTHER -> Cell("err", NullV, "unsupported type in row")

\* The loop `for i, val := range row`: the builders after the row, or the
\* first error with its column.
RECURSIVE CsvFields(_, _, _, _)
CsvFields(sch, bs, row, i) ==
    IF i > Len(row) THEN [ok |-> TRUE, bs |-> bs, err |-> "", col |-> 0]
    ELSE LET c == CoerceText(sch[i], row[i])
         IN  IF c.st = "err" THEN [ok |-> FALSE, bs |-> bs, err |-> c.err, col |-> i]
             ELSE CsvFields(sch, [bs EXCEPT ![i] = BAppend(@, c.v)], row, i + 1)

\* The builders, os.Open and the header row.
CsvOpenings ==
    {[open |-> FALSE, header |-> 0]} \cup {[open |-> TRUE, header |-> h] : h \in 0..MaxCols}

loadDataFromFile_Start ==
    /\ pc = "select"
    /\ Branch = "csv"
    /\ IF \E i \in 1..NumFields : ~CsvSupported(schema[i].type)
       THEN Abort(Err("unsupported type")) /\ UNCHANGED fieldsPerRecord
       ELSE \E o \in CsvOpenings :
               IF ~o.open THEN Abort(Err("failed to open file")) /\ UNCHANGED fieldsPerRecord
               ELSE IF o.header = 0
                    THEN Abort(Err("failed to read CSV header")) /\ UNCHANGED fieldsPerRecord
               ELSE /\ pc' = "csv"
                    /\ builders' = [i \in 1..NumFields |-> NewBuilder(schema[i].type)]
                    /\ fieldsPerRecord' = o.header
                    /\ UNCHANGED <<outcome, record>>
    /\ UNCHANGED <<doc, decoder, inv, schema, consumed, last, allBatches, sink, dropped, concatenated>>

\* One pass of the row loop over a record the reader yields.  The reader
\* was left with FieldsPerRecord = 0, so it holds every record to the
\* header's field count and returns csv.ErrFieldCount otherwise.
CsvRowOutcome(sch, bs, fpr, row, rowNum) ==
    IF Len(row) # fpr
    THEN [ok |-> FALSE, bs |-> bs,
          e |-> ErrAt("error reading row: wrong number of fields", rowNum, 0)]
    ELSE IF Len(row) # Len(sch)
    THEN [ok |-> FALSE, bs |-> bs,
          e |-> [ErrAt("expected fields", rowNum, 0) EXCEPT !.exp = Len(sch), !.got = Len(row)]]
    ELSE LET r == CsvFields(sch, bs, row, 1)
         IN  IF r.ok THEN [ok |-> TRUE, bs |-> r.bs, e |-> Running]
             ELSE [ok |-> FALSE, bs |-> bs, e |-> ErrAt(r.err, rowNum, r.col)]

loadDataFromFile_Row ==
    /\ pc = "csv"
    /\ Len(consumed) < MaxRows
    /\ \E row \in CsvRows(schema) :
          LET r == CsvRowOutcome(schema, builders, fieldsPerRecord, row, Len(consumed) + 2)
          IN  /\ last' = row
              /\ IF r.ok
                 THEN /\ builders' = r.bs
                      /\ consumed' = Append(consumed, row)
                      /\ UNCHANGED <<pc, outcome, record>>
                 ELSE Abort(r.e) /\ UNCHANGED consumed
    /\ UNCHANGED <<doc, decoder, inv, schema, fieldsPerRecord, allBatches, sink, dropped, concatenated>>

\* rdr.Read fails with something other than io.EOF: no record was read.
loadDataFromFile_ReadError ==
    /\ pc = "csv"
    /\ Abort(ErrAt("error reading row: read error", Len(consumed) + 2, 0))
    /\ last' = <<>>
    /\ UNCHANGED <<doc, decoder, inv, schema, fieldsPerRecord, consumed, allBatches, sink, dropped, concatenated>>

\* io.EOF: the arrays are built and the record is made, its row count
\* taken from arrays[0], which does not exist for a schema without fields.
AssembleFirstLen(sch, bs) ==
    IF Len(bs) = 0 THEN Panic("index out of range [0] with length 0")
    ELSE NewRecord(sch, [i \in 1..Len(bs) |-> NewArray(bs[i])], Len(bs[1].vals))

loadDataFromFile_EOF ==
    /\ pc = "csv"
    /\ Return(AssembleFirstLen(schema, builders))
    /\ UNCHANGED <<doc, decoder, inv, schema, fieldsPerRecord, consumed, last, allBatches, sink, dropped, concatenated>>

----------------------------------------------------------------------------
(* loadDataFromJSON: the JSON adapter                                      *)

\* The values a record may hold under the key of field i: absent, null,
\* strings, numbers (json decodes every number to float64) and a bool.
JsonValues(i, type) ==
    IF i > 2 THEN {StrV("20")}
    ELSE IF i = 2 THEN {AbsentV, StrV("20")}
    ELSE {AbsentV, NullV, StrV(""), StrV("x"), FloatV(5, 0), FloatV(15, 1), BoolV(TRUE)}
         \cup CASE type.id \in {"Int32", "Int64"} -> {StrV("1")}
                [] type.id = "Float64" -> {StrV("1.5")}
                [] type.id = "Timestamp" -> {StrV(TS_EXACT), StrV(TS_FRAC), StrV(TS_PRE)}
                [] OTHER -> {}

AllJsonValues ==
    {AbsentV, NullV, FloatV(5, 0), FloatV(15, 1), BoolV(TRUE)} \cup {StrV(l) : l \in AllLiterals}

\* The decoded objects: a record maps every field name to its value, or to
\* AbsentV when the object has no such key.
JsonRecords(sch) ==
    {r \in [Names(sch) -> AllJsonValues] :
        \A i \in 1..Len(sch) : r[sch[i].name] \in JsonValues(i, sch[i].type)}

\* A top-level JSON value of the file, or an element of a top-level array:
\* an object (rec: its keys), null, a number, an array (elems: its
\* elements), or text that is not JSON ("bad").
Item(t, rec, elems) == [t |-> t, rec |-> rec, elems |-> elems]

\* The map without keys: `{}`, and what a JSON null decodes to (a nil map,
\* in which every lookup finds nothing).
EmptyObject(sch) == [n \in Names(sch) |-> AbsentV]

Object(rec) == Item("object", rec, <<>>)

\* Items with which the shape of the file varies: two objects, a null, a
\* number and a syntax error.
ProbeItems(sch) ==
    {Object([n \in Names(sch) |-> FloatV(5, 0)]), Object([n \in Names(sch) |-> FloatV(15, 1)]),
     Item("null", EmptyObject(sch), <<>>), Item("number", EmptyObject(sch), <<>>),
     Item("bad", EmptyObject(sch), <<>>)}

SeqsUpTo(S, n) == UNION {[1..k -> S] : k \in 0..n}

\* The files: one top-level array of up to MaxRows objects of any content;
\* and, of the probe items, one top-level array or a stream of values.
JsonDocs(sch) ==
    {<<Item("array", EmptyObject(sch), es)>> :
        es \in SeqsUpTo({Object(r) : r \in JsonRecords(sch)}, MaxRows)}
    \cup {<<Item("array", EmptyObject(sch), es)>> : es \in SeqsUpTo(ProbeItems(sch), MaxRows)}
    \cup SeqsUpTo(ProbeItems(sch), MaxRows)

\* dec.Decode(&records), records a []map[string]interface{}: the next value
\* of the file from position `from`.  Nothing is decoded when there is no
\* value (io.EOF) or the value is not well-formed; an object or a number is
\* a type error; null leaves the nil slice; an array is decoded element by
\* element, a null element to a nil map, and an element that is no object
\* is a type error that leaves a nil map in its place.  The decoder reads
\* the file through a buffer larger than these files, so the file position
\* is the end of the file afterwards.
DecodeArray(sch, values, from) ==
    IF from >= Len(values) THEN [ok |-> FALSE, records |-> <<>>, read |-> Len(values)]
    ELSE LET v == values[from + 1]
         IN  IF v.t = "null" THEN [ok |-> TRUE, records |-> <<>>, read |-> Len(values)]
             ELSE IF v.t # "array" \/ \E i \in 1..Len(v.elems) : v.elems[i].t = "bad"
             THEN [ok |-> FALSE, records |-> <<>>, read |-> Len(values)]
             ELSE [ok |-> \A i \in 1..Len(v.elems) : v.elems[i].t \in {"object", "null"},
                   records |-> [i \in 1..Len(v.elems) |->
                                   IF v.elems[i].t = "object" THEN v.elems[i].rec
                                   ELSE EmptyObject(sch)],
                   read |-> Len(values)]

\* The loop `for { var row map[string]interface{}; dec.Decode(&row) ... }`
\* from position `from`: io.EOF ends it; an object is appended; a null
\* decodes without error to a nil map, which is appended; any other value
\* is a decode error.
RECURSIVE DecodeStream(_, _, _, _)
DecodeStream(sch, values, from, recs) ==
    IF from >= Len(values) THEN [ok |-> TRUE, records |-> recs, read |-> Len(values)]
    ELSE LET v == values[from + 1]
         IN  IF v.t = "object" THEN DecodeStream(sch, values, from + 1, Append(recs, v.rec))
             ELSE IF v.t = "null"
             THEN DecodeStream(sch, values, from + 1, Append(recs, EmptyObject(sch)))
             ELSE [ok |-> FALSE, records |-> recs, read |-> Len(values)]

\* f.Seek(0, io.SeekStart)
Rewind(pos) == 0

Pow10(e) == CASE e = 0 -> 1 [] e = 1 -> 10 [] e = 2 -> 100 [] OTHER -> 1000

\* int64(v), int32(v) of a float64: the fraction is discarded (toward zero)
FloatToInt(v) ==
    IF v.a >= 0 THEN IntV(v.a \div Pow10(v.b)) ELSE IntV(-((-v.a) \div Pow10(v.b)))

\* fmt.Sprintf("%v", val) of a decoded number or bool
Sprintv(v) ==
    CASE v.k = "bool" -> IF v.a = 1 THEN "true" ELSE "false"
      [] v.k = "float" /\ v.b = 0 -> ToString(v.a)
      [] v.k = "float" -> ToString(v.a \div Pow10(v.b)) \o "." \o ToString(v.a % Pow10(v.b))
      [] OTHER -> v.s

\* The body of `for i, field := range schema.Fields()` for one field: the
\* key lookup, the nil check and the switch over the field's type.
\* A missing value taken as a null whatever the field's nullability.
MissingValueAlwaysNull(f) == Cell("null", NullV, "")

\* `if !ok || val == nil`: a null in a nullable field, else the error
MissingValue(f) ==
    IF f.nullable THEN Cell("null", NullV, "")
    ELSE Cell("err", NullV, "missing non-nullable field")

CoerceJSON(f, val) ==
    IF val.k = "absent" \/ val.k = "null" THEN MissingValue(f)
    ELSE CASE f.type.id = "Int64" ->
                 IF val.k = "float" THEN Cell("val", FloatToInt(val), "")
                 ELSE IF val.k = "str"
                 THEN IF EmptyIsNull(f, val.s) THEN Cell("null", NullV, "")
                      ELSE IF ParseInt(val.s, 64).ok THEN Cell("val", ParseInt(val.s, 64).v, "")
                      ELSE Cell("err", NullV, "invalid int64")
                 ELSE Cell("err", NullV, "expected int64")
           [] f.type.id = "Int32" ->
                 IF val.k = "float" THEN Cell("val", FloatToInt(val), "")
                 ELSE IF val.k = "str"
                 THEN IF EmptyIsNull(f, val.s) THEN Cell("null", NullV, "")
                      ELSE IF ParseInt(val.s, 32).ok THEN Cell("val", ParseInt(val.s, 32).v, "")
                      ELSE Cell("err", NullV, "invalid int32")
                 ELSE Cell("err", NullV, "expected int32")
           [] f.type.id = "Float64" ->
                 IF val.k = "float" THEN Cell("val", val, "")
                 ELSE IF val.k = "str"
                 THEN IF EmptyIsNull(f, val.s) THEN Cell("null", NullV, "")
                      ELSE IF ParseFloat(val.s).ok THEN Cell("val", ParseFloat(val.s).v, "")
                      ELSE Cell("err", NullV, "invalid float64")
                 ELSE Cell("err", NullV, "expected float64")
           [] f.type.id = "String" ->
                 IF val.k = "str"
                 THEN IF EmptyIsNull(f, val.s) THEN Cell("null", NullV, "")
                      ELSE Cell("val", StrV(val.s), "")
                 ELSE Cell("val", StrV(Sprintv(val)), "")
           [] f.type.id = "Timestamp" ->
                 IF val.k = "str"
                 THEN IF EmptyIsNull(f, val.s) THEN Cell("null", NullV, "")
                      ELSE IF ParseTime(val.s).ok
                           THEN Cell("val", Epoch(f.type.unit, ParseTime(val.s).tm), "")
                      ELSE Cell("err", NullV, "invalid timestamp")
                 ELSE Cell("err", NullV, "invalid timestamp type")
           [] OTHER -> Cell("err", NullV, "unsupported type")

RECURSIVE JsonFields(_, _, _, _)
JsonFields(sch, bs, rec, i) ==
    IF i > Len(sch) THEN [ok |-> TRUE, bs |-> bs, err |-> "", col |-> 0]
    ELSE LET c == CoerceJSON(sch[i], rec[sch[i].name])
         IN  IF c.st = "err" THEN [ok |-> FALSE, bs |-> bs, err |-> c.err, col |-> i]
             ELSE JsonFields(sch, [bs EXCEPT ![i] = BAppend(@, c.v)], rec, i + 1)

\* The builders and os.Open, which finds the file with its content.
loadDataFromJSON_Start ==
    /\ pc = "select"
    /\ Branch = "json"
    /\ IF \E i \in 1..NumFields : ~CsvSupported(schema[i].type)
       THEN Abort(Err("unsupported type")) /\ UNCHANGED doc
       ELSE \/ Abort(Err("failed to open file")) /\ UNCHANGED doc
            \/ /\ doc' \in JsonDocs(schema)
               /\ pc' = "json_decode"
               /\ builders' = [i \in 1..NumFields |-> NewBuilder(schema[i].type)]
               /\ UNCHANGED <<outcome, record>>
    /\ UNCHANGED <<decoder, inv, schema, fieldsPerRecord, consumed, last, allBatches, sink, dropped, concatenated>>

\* `if err := dec.Decode(&records); err != nil`: the file as one array.
loadDataFromJSON_Decode ==
    /\ pc = "json_decode"
    /\ LET d == DecodeArray(schema, doc, offset)
       IN  /\ records' = d.records
           /\ offset' = d.read
           /\ stage' = IF d.ok THEN "array" ELSE "failed"
           /\ pc' = IF d.ok THEN "json" ELSE "json_seek"
    /\ UNCHANGED <<doc, inv, schema, builders, fieldsPerRecord, consumed, last, allBatches,
                   record, outcome, sink, dropped, concatenated>>

\* After the failed attempt: f.Seek to the start (which may fail), a new
\* decoder, and records emptied.
loadDataFromJSON_Seek ==
    /\ pc = "json_seek"
    /\ \E sought \in BOOLEAN :
          IF ~sought
          THEN Abort(Err("invalid JSON format, and seek failed")) /\ UNCHANGED decoder
          ELSE /\ offset' = Rewind(offset)
               /\ records' = <<>>
               /\ stage' = "rewound"
               /\ pc' = "json_ndjson"
               /\ UNCHANGED <<outcome, builders, record>>
    /\ UNCHANGED <<doc, inv, schema, fieldsPerRecord, consumed, last, allBatches, sink,
                   dropped, concatenated>>

\* The fallback loop over the values of the file, to io.EOF or an error.
loadDataFromJSON_Fallback ==
    /\ pc = "json_ndjson"
    /\ LET d == DecodeStream(schema, doc, offset, records)
       IN  /\ records' = d.records
           /\ offset' = d.read
           /\ IF d.ok
              THEN /\ stage' = "ndjson"
                   /\ pc' = "json"
                   /\ UNCHANGED <<outcome, builders, record>>
              ELSE Abort(Err("JSON decode error")) /\ UNCHANGED stage
    /\ UNCHANGED <<doc, inv, schema, fieldsPerRecord, consumed, last, allBatches, sink,
                   dropped, concatenated>>

\* One pass of `for rowNum, rec := range records`.
loadDataFromJSON_Record ==
    /\ pc = "json"
    /\ Len(consumed) < Len(records)
    /\ LET rec == records[Len(consumed) + 1]
           r == JsonFields(schema, builders, rec, 1)
       IN  /\ last' = rec
           /\ IF r.ok
              THEN /\ builders' = r.bs
                   /\ consumed' = Append(consumed, rec)
                   /\ UNCHANGED <<pc, outcome, record>>
              ELSE Abort(ErrAt(r.err, Len(consumed) + 1, r.col)) /\ UNCHANGED consumed
    /\ UNCHANGED <<doc, decoder, inv, schema, fieldsPerRecord, allBatches, sink, dropped, concatenated>>

\* After the last record: the arrays and the record, as in loadDataFromFile.
loadDataFromJSON_End ==
    /\ pc = "json"
    /\ Len(consumed) = Len(records)
    /\ Return(AssembleFirstLen(schema, builders))
    /\ UNCHANGED <<doc, decoder, inv, schema, fieldsPerRecord, consumed, last, allBatches, sink, dropped, concatenated>>

----------------------------------------------------------------------------
(* generateSampleData                                                      *)

NumSampleRows == 5

\* The value the switch over field.Type appends for row i (0-based), and the
\* type of the builder it uses.
SampleBuilderType(f) ==
    IF f.type \in {Int64, Int32, String, Float64} THEN f.type ELSE String

SampleValue(f, i) ==
    CASE f.type = Int64 -> IntV(i + 1)
      [] f.type = Int32 -> IntV(20 + i)
      [] f.type = String ->
            IF f.name = "name" THEN StrV("User" \o ToString(i + 1))
            ELSE IF f.name = "email" THEN StrV("user" \o ToString(i + 1) \o "@example.com")
            ELSE StrV("sample_" \o f.name \o "_" \o ToString(i + 1))
      [] f.type = Float64 -> FloatV(15 * i, 1)
      [] OTHER -> StrV("default_" \o ToString(i + 1))

SampleArrays(sch) ==
    [c \in 1..Len(sch) |->
        [type |-> SampleBuilderType(sch[c]),
         vals |-> [i \in 1..NumSampleRows |-> SampleValue(sch[c], i - 1)]]]

\* The record made with a schema read off the arrays instead of the target.
generateSampleDataInferred(sch) ==
    NewRecord([i \in 1..Len(sch) |-> [sch[i] EXCEPT !.type = SampleArrays(sch)[i].type]],
              SampleArrays(sch), NumSampleRows)

generateSampleData(sch) == NewRecord(sch, SampleArrays(sch), NumSampleRows)

RunSample ==
    /\ pc = "select"
    /\ Branch = "sample"
    /\ Return(generateSampleData(schema))
    /\ UNCHANGED <<doc, decoder, inv, schema, fieldsPerRecord, consumed, last, allBatches, sink, dropped, concatenated>>

----------------------------------------------------------------------------
(* loadBlobRecord                                                          *)

BlobContents == {"", "abc"}

\* os.ReadFile of each mapped path: an error, or the file's content
BlobReads(blobs) == [blobs -> {[ok |-> FALSE, data |-> ""]} \cup
                              {[ok |-> TRUE, data |-> d] : d \in BlobContents}]

BlobBuilderType(f) ==
    IF f.type.id \in {"Binary", "LargeBinary", "String"} THEN f.type ELSE String

\* The second loop: the builders after field i .. the last, or the error.
RECURSIVE BlobFields(_, _, _, _, _)
BlobFields(sch, bs, blobs, reads, i) ==
    IF i > Len(sch) THEN [ok |-> TRUE, bs |-> bs, col |-> 0]
    ELSE IF sch[i].name \in blobs
    THEN IF ~reads[sch[i].name].ok THEN [ok |-> FALSE, bs |-> bs, col |-> i]
         ELSE LET data == reads[sch[i].name].data
                  v == IF bs[i].type.id = "String" THEN StrV(data) ELSE BytesV(data)
              IN  BlobFields(sch, [bs EXCEPT ![i] = BAppend(@, v)], blobs, reads, i + 1)
    ELSE BlobFields(sch, [bs EXCEPT ![i] = BAppend(@, NullV)], blobs, reads, i + 1)

loadBlobRecord(blobs, sch, reads) ==
    LET r == BlobFields(sch, [i \in 1..Len(sch) |-> NewBuilder(BlobBuilderType(sch[i]))],
                        blobs, reads, 1)
    IN  IF ~r.ok THEN ErrAt("read blob", 1, r.col)
        ELSE NewRecord(sch, [i \in 1..Len(sch) |-> NewArray(r.bs[i])], 1)

RunBlob ==
    /\ pc = "select"
    /\ Branch = "blob"
    /\ \E reads \in BlobReads(inv.blobs) :
          /\ last' = reads
          /\ Return(loadBlobRecord(inv.blobs, schema, reads))
    /\ UNCHANGED <<doc, decoder, inv, schema, fieldsPerRecord, consumed, allBatches, sink, dropped, concatenated>>

----------------------------------------------------------------------------
(* concatRecords                                                           *)

RECURSIVE Flatten(_)
Flatten(seqs) == IF Len(seqs) = 0 THEN <<>> ELSE Head(seqs) \o Flatten(Tail(seqs))

\* array.Concatenate(arrs, mem): the arrays laid end to end, or an error
\* when they are not of one type.
\* The inputs joined last to first.
ConcatenateReversed(arrs) ==
    [ok |-> TRUE,
     arr |-> [type |-> arrs[1].type,
              vals |-> Flatten([k \in 1..Len(arrs) |-> arrs[Len(arrs) + 1 - k].vals])]]

\* array.Concatenate(arrays, mem)
Concatenate(arrs) ==
    IF \E k \in 1..Len(arrs) : ~TypeEqual(arrs[k].type, arrs[1].type)
    THEN [ok |-> FALSE, arr |-> [type |-> arrs[1].type, vals |-> <<>>]]
    ELSE [ok |-> TRUE,
          arr |-> [type |-> arrs[1].type,
                   vals |-> Flatten([k \in 1..Len(arrs) |-> arrs[k].vals])]]

\* The row count of the first record alone.
TotalRowsFirstOnly(recs) == IF Len(recs) = 0 THEN 0 ELSE Head(recs).rows

\* `for _, rec := range records { totalRows += rec.NumRows() }`
RECURSIVE TotalRows(_)
TotalRows(recs) == IF Len(recs) = 0 THEN 0 ELSE Head(recs).rows + TotalRows(Tail(recs))

\* concatRecords(mem, schema, records...).  overflow: array.Concatenate
\* reports an error of its own (the offsets of the joined array overflow,
\* the allocation fails), which it can only do when it is called.
concatRecords(sch, recs, overflow) ==
    IF Len(recs) = 0 THEN Ok(NilRecord)
    ELSE LET outs == [i \in 1..Len(sch) |->
                         Concatenate([k \in 1..Len(recs) |-> recs[k].cols[i]])]
         IN  IF Len(sch) > 0 /\ overflow
             THEN Err("arrow/concat: offset overflow while concatenating arrays")
             ELSE IF \E i \in 1..Len(sch) : ~outs[i].ok
             THEN Err("arrays to be concatenated must be identically typed")
             ELSE NewRecord(sch, [i \in 1..Len(sch) |-> outs[i].arr], TotalRows(recs))

----------------------------------------------------------------------------
(* loadDataFromORCToParquet: the batches of the converted file             *)

\* A value of the type, numbered n
ValueOf(type, n) ==
    CASE type.id \in {"Int32", "Int64"} -> IntV(n)
      [] type.id = "Float64" -> FloatV(n, 0)
      [] type.id = "String" -> StrV(ToString(n))
      [] type.id = "Timestamp" -> TsV(n, 0, type.unit)
      [] OTHER -> BytesV(ToString(n))

\* The two rows batches are made of: "A" holds the values numbered 1, "B"
\* a null in every nullable field and the values numbered 2 elsewhere.
RowOf(sch, kind) ==
    [i \in 1..Len(sch) |->
        IF kind = "A" THEN ValueOf(sch[i].type, 1)
        ELSE IF sch[i].nullable THEN NullV ELSE ValueOf(sch[i].type, 2)]

BatchOf(sch, kinds) ==
    [nil |-> FALSE, schema |-> sch,
     cols |-> [i \in 1..Len(sch) |->
                  [type |-> sch[i].type,
                   vals |-> [k \in 1..Len(kinds) |-> RowOf(sch, kinds[k])[i]]]],
     rows |-> Len(kinds)]

RowKinds == UNION {[1..n -> {"A", "B"}] : n \in 0..MaxBatchRows}

\* Batches of the target schema
ConformantBatches(sch) == {BatchOf(sch, ks) : ks \in RowKinds}

\* Schemas the converted file may have instead: every field nullable, or
\* the last field missing.
ForeignSchemas(sch) ==
    ({[i \in 1..Len(sch) |-> [sch[i] EXCEPT !.nullable = TRUE]]}
        \cup (IF Len(sch) > 0 THEN {SubSeq(sch, 1, Len(sch) - 1)} ELSE {})) \ {sch}

\* The batches the record reader may yield: of the target schema or of a
\* foreign one, with no row or one.
ForeignBatches(sch) ==
    {BatchOf(sch, <<>>)}
    \cup {BatchOf(fs, <<k>>) : fs \in {sch} \cup ForeignSchemas(sch), k \in {"A", "B"}}

\* rec.Schema().Equal(schema)
SchemaEqual(a, b) == a = b

\* lockbox.CoerceRecord(schema, rec): a batch of the target schema made of
\* the foreign batch's columns, found by name; a missing column or a null
\* is a null in a nullable field and an error otherwise.
ColumnIndex(fsch, name) ==
    IF \E j \in 1..Len(fsch) : fsch[j].name = name
    THEN CHOOSE j \in 1..Len(fsch) : fsch[j].name = name
    ELSE 0

CoerceColumn(f, rec) ==
    LET j == ColumnIndex(rec.schema, f.name)
    IN  IF j = 0
        THEN IF f.nullable
             THEN [ok |-> TRUE, err |-> "",
                   arr |-> [type |-> f.type, vals |-> [k \in 1..rec.rows |-> NullV]]]
             ELSE [ok |-> FALSE, err |-> "missing non-nullable field",
                   arr |-> [type |-> f.type, vals |-> <<>>]]
        ELSE IF ~TypeEqual(rec.cols[j].type, f.type)
        THEN [ok |-> FALSE, err |-> "cannot coerce column",
              arr |-> [type |-> f.type, vals |-> <<>>]]
        ELSE IF ~f.nullable /\ \E k \in 1..Len(rec.cols[j].vals) : rec.cols[j].vals[k] = NullV
        THEN [ok |-> FALSE, err |-> "missing non-nullable field",
              arr |-> [type |-> f.type, vals |-> <<>>]]
        ELSE [ok |-> TRUE, err |-> "", arr |-> [type |-> f.type, vals |-> rec.cols[j].vals]]

CoerceRecord(sch, rec) ==
    LET cs == [i \in 1..Len(sch) |-> CoerceColumn(sch[i], rec)]
    IN  IF \E i \in 1..Len(sch) : ~cs[i].ok
        THEN Err(cs[CHOOSE i \in 1..Len(sch) : ~cs[i].ok /\ \A j \in 1..(i - 1) : cs[j].ok].err)
        ELSE Ok([nil |-> FALSE, schema |-> sch,
                 cols |-> [i \in 1..Len(sch) |-> cs[i].arr], rows |-> rec.rows])

\* RunE's convertORCtoParquet, then os.Open and the readers
loadDataFromORCToParquet_Start ==
    /\ pc = "select"
    /\ Branch = "orc"
    /\ \E failed \in {"", "conversion failed", "failed to open parquet file",
                      "failed to read parquet file", "failed to create parquet reader",
                      "failed to get parquet schema", "failed to get record reader"} :
          IF failed # "" THEN Abort(Err(failed))
          ELSE pc' = "orc" /\ UNCHANGED <<outcome, builders, record>>
    /\ UNCHANGED <<doc, decoder, inv, schema, fieldsPerRecord, consumed, last, allBatches, sink, dropped, concatenated>>

\* The batch appended as it was read, whatever its schema.
AccumulateRaw(sch, batches, rec) ==
    [ok |-> TRUE, e |-> Running, batches |-> Append(batches, rec)]

\* The body of `for recReader.Next()`: the batch as it is when its schema
\* equals the target, and CoerceRecord's batch otherwise.
Accumulate(sch, batches, rec) ==
    IF ~SchemaEqual(rec.schema, sch)
    THEN LET c == CoerceRecord(sch, rec)
         IN  IF c.kind # "ok" THEN [ok |-> FALSE, e |-> c, batches |-> batches]
             ELSE [ok |-> TRUE, e |-> Running, batches |-> Append(batches, c.rec)]
    ELSE [ok |-> TRUE, e |-> Running, batches |-> Append(batches, rec)]

loadDataFromORCToParquet_Next ==
    /\ pc = "orc"
    /\ Len(consumed) < MaxBatches
    /\ \E rec \in ForeignBatches(schema) :
          LET r == Accumulate(schema, allBatches, rec)
          IN  /\ last' = rec
              /\ IF r.ok
                 THEN /\ allBatches' = r.batches
                      /\ consumed' = Append(consumed, rec)
                      /\ UNCHANGED <<pc, outcome, builders, record>>
                 ELSE Abort(r.e) /\ UNCHANGED <<consumed, allBatches>>
    /\ UNCHANGED <<doc, decoder, inv, schema, fieldsPerRecord, sink, dropped, concatenated>>

\* After the loop: the zero-batch error, else concatRecords, whose error is
\* assigned and not looked at: (result, nil) is returned either way.  The
\* loop also ends when the reader fails (recReader.Err() is not asked).
OrcResult(sch, batches, overflow) ==
    IF Len(batches) = 0 THEN Err("no data found in Parquet file")
    ELSE LET c == concatRecords(sch, batches, overflow)
         IN  IF c.kind = "panic" THEN c ELSE Ok(c.rec)

OrcDropped(sch, batches, overflow, readErr) ==
    IF Len(batches) > 0 /\ concatRecords(sch, batches, overflow).kind = "err"
    THEN concatRecords(sch, batches, overflow).err
    ELSE IF readErr THEN "record reader error" ELSE ""

loadDataFromORCToParquet_End ==
    /\ pc = "orc"
    /\ \E overflow \in BOOLEAN, readErr \in BOOLEAN :
          /\ Return(OrcResult(schema, allBatches, overflow))
          /\ dropped' = OrcDropped(schema, allBatches, overflow, readErr)
    /\ concatenated' = IF Len(allBatches) = 0 THEN concatenated
                       ELSE Append(concatenated, allBatches)
    /\ UNCHANGED <<doc, decoder, inv, schema, fieldsPerRecord, consumed, last, allBatches, sink>>

----------------------------------------------------------------------------
\* The run before RunE: a schema and a command line.
Init ==
    /\ pc = "start"
    /\ schema \in Schemas
    /\ inv \in Invocations(schema)
    /\ builders = <<>>
    /\ fieldsPerRecord = 0
    /\ consumed = <<>>
    /\ last = <<>>
    /\ allBatches = <<>>
    /\ record = NilRecord
    /\ outcome = Running
    /\ sink = <<>>
    /\ dropped = ""
    /\ concatenated = <<>>
    /\ doc = <<>>
    /\ records = <<>>
    /\ offset = 0
    /\ stage = ""

Next ==
    \/ Prepare
    \/ NoInput
    \/ RunSample
    \/ RunBlob
    \/ loadDataFromFile_Start
    \/ loadDataFromFile_Row
    \/ loadDataFromFile_ReadError
    \/ loadDataFromFile_EOF
    \/ loadDataFromJSON_Start
    \/ loadDataFromJSON_Decode
    \/ loadDataFromJSON_Seek
    \/ loadDataFromJSON_Fallback
    \/ loadDataFromJSON_Record
    \/ loadDataFromJSON_End
    \/ loadDataFromORCToParquet_Start
    \/ loadDataFromORCToParquet_Next
    \/ loadDataFromORCToParquet_End
    \/ Write

Spec == Init /\ [][Next]_vars

----------------------------------------------------------------------------
(* concatRecords on its own: any sequence of batches of one schema         *)

ConcatSchemas ==
    {s \in Schemas : /\ \A i \in 1..Len(s) : s[i].nullable
                     /\ Len(s) > 0 => s[1].type \in {Int64, String}}

InitConcat ==
    /\ pc = "concat"
    /\ schema \in ConcatSchemas
    /\ inv = Flags(FALSE, "orc", TRUE, {})
    /\ builders = <<>>
    /\ fieldsPerRecord = 0
    /\ consumed = <<>>
    /\ last = <<>>
    /\ allBatches = <<>>
    /\ record = NilRecord
    /\ outcome = Running
    /\ sink = <<>>
    /\ dropped = ""
    /\ concatenated = <<>>
    /\ doc = <<>>
    /\ records = <<>>
    /\ offset = 0
    /\ stage = ""

Concat_Append ==
    /\ pc = "concat"
    /\ Len(allBatches) < MaxConcat
    /\ \E b \in ConformantBatches(schema) : allBatches' = Append(allBatches, b)
    /\ UNCHANGED <<doc, decoder, pc, inv, schema, builders, fieldsPerRecord, consumed, last,
                   record, outcome, sink, dropped, concatenated>>

Concat_Run ==
    /\ pc = "concat"
    /\ \E overflow \in BOOLEAN :
          /\ outcome' = concatRecords(schema, allBatches, overflow)
          /\ record' = outcome'.rec
    /\ pc' = "concatenated"
    /\ concatenated' = Append(concatenated, allBatches)
    /\ UNCHANGED <<doc, decoder, inv, schema, builders, fieldsPerRecord, consumed, last,
                   allBatches, sink, dropped>>

NextConcat == Concat_Append \/ Concat_Run

SpecConcat == InitConcat /\ [][NextConcat]_vars

----------------------------------------------------------------------------
(* Properties                                                              *)

\* The run is inside, or came out of, one of the two row adapters.
RowAdapter == Branch \in {"csv", "json"}

\* The raw value record rec of the input holds for field i: the cell of a
\* CSV row, or the value under the field's name in a JSON object.
RawAt(rec, i) == IF Branch = "csv" THEN StrV(rec[i]) ELSE rec[schema[i].name]

\* Absent or empty: an empty literal, an absent key, a null, an empty string
IsEmpty(v) == v.k \in {"absent", "null"} \/ (v.k = "str" /\ v.s = "")

\* The columns of the row adapter: the builders while it runs, the record's
\* columns once it returned one.
Building == pc \in {"csv", "json"} /\ (Branch = "json" => stage \in {"array", "ndjson"})
Columns == IF Building THEN builders ELSE record.cols

\* C1: every batch an adapter returns has as many columns as the schema has
\* fields, and column i has the type of field i.
C1_ColumnsMatchSchema ==
    ~record.nil =>
        /\ Len(record.cols) = NumFields
        /\ \A i \in 1..NumFields : TypeEqual(record.cols[i].type, schema[i].type)

C1_Witness ==
    /\ ~record.nil
    /\ NumFields = 2
    /\ Branch \in {"sample", "csv", "json", "orc"}

InvalidMsg(type) ==
    CASE type.id = "Int64" -> "invalid int64"
      [] type.id = "Int32" -> "invalid int32"
      [] type.id = "Float64" -> "invalid float64"
      [] OTHER -> "invalid timestamp"

\* The run failed on field outcome.col of the record read last, which held
\* an absent or empty value for that non-nullable field.
FailedOnEmptyRequired ==
    /\ RowAdapter
    /\ pc = "done"
    /\ outcome.kind = "err"
    /\ outcome.col > 0
    /\ ~schema[outcome.col].nullable
    /\ IsEmpty(RawAt(last, outcome.col))

\* C2 as claimed: a record with an absent or empty value for a non-nullable
\* field is never accepted, and the failure on it is the missing-field error.
C2_Original ==
    /\ (RowAdapter /\ (Building \/ ~record.nil)) =>
          \A k \in 1..Len(consumed), i \in 1..NumFields :
              ~(~schema[i].nullable /\ IsEmpty(RawAt(consumed[k], i)))
    /\ FailedOnEmptyRequired =>
          record.nil /\ outcome.err = "missing non-nullable field"

\* C2 amended: for a non-nullable field, an absent key or a null fails with
\* the missing-field error; an empty literal fails with the invalid-value
\* error of an Int32, Int64, Float64 or Timestamp field; an empty literal of
\* a String field is stored as the empty string and the record accepted.
C2_EmptyRequired ==
    /\ (RowAdapter /\ (Building \/ ~record.nil)) =>
          \A k \in 1..Len(consumed), i \in 1..NumFields :
              (~schema[i].nullable /\ IsEmpty(RawAt(consumed[k], i))) =>
                  /\ schema[i].type = String
                  /\ RawAt(consumed[k], i) = StrV("")
                  /\ Columns[i].vals[k] = StrV("")
    /\ FailedOnEmptyRequired =>
          /\ record.nil
          /\ IF RawAt(last, outcome.col).k = "str"
             THEN /\ schema[outcome.col].type # String
                  /\ outcome.err = InvalidMsg(schema[outcome.col].type)
             ELSE outcome.err = "missing non-nullable field"

C2_Witness ==
    /\ FailedOnEmptyRequired
    /\ Branch = "json"
    /\ RawAt(last, outcome.col) = AbsentV
    /\ Len(consumed) = 1

\* C3: in the row adapters every column has one entry per record read, and
\* the entry of a nullable field is a null exactly where the record's value
\* was absent or empty; the returned batch has one row per record.
C3_NullsKeepRows ==
    (RowAdapter /\ (Building \/ ~record.nil)) =>
        /\ ~record.nil => record.rows = Len(consumed)
        /\ \A i \in 1..NumFields :
              /\ Len(Columns[i].vals) = Len(consumed)
              /\ \A k \in 1..Len(consumed) :
                    IF schema[i].nullable /\ IsEmpty(RawAt(consumed[k], i))
                    THEN Columns[i].vals[k] = NullV
                    ELSE Columns[i].vals[k] # NullV

C3_Witness ==
    /\ RowAdapter
    /\ ~record.nil
    /\ Len(consumed) = 2
    /\ \E k \in 1..2, i \in 1..NumFields, j \in 1..NumFields :
          /\ schema[i].nullable
          /\ IsEmpty(RawAt(consumed[k], i))
          /\ ~IsEmpty(RawAt(consumed[k], j))
          /\ record.cols[i].vals[k] = NullV

\* C4: every column of a returned batch is as long as the batch's row
\* count, and the builders of a row adapter are all of one length after
\* each record.
C4_ColumnLengths ==
    /\ ~record.nil =>
          \A i \in 1..Len(record.cols) : Len(record.cols[i].vals) = record.rows
    /\ Building =>
          \A i \in 1..Len(builders) : Len(builders[i].vals) = Len(builders[1].vals)

C4_Witness ==
    /\ Branch = "orc"
    /\ ~record.nil
    /\ Len(allBatches) = 2
    /\ NumFields = 2
    /\ record.rows = 2

\* C5: lb.Write is invoked at most once, with a batch (never the nil
\* record), and not at all when a stage of the adapter reported an error.
C5_SinkOnlyAfterSuccess ==
    /\ Len(sink) <= 1
    /\ \A k \in 1..Len(sink) : ~sink[k].nil
    /\ dropped # "" => Len(sink) = 0

\* C6 as claimed: a data row whose field count differs from the schema's
\* fails with the error that carries the expected and the actual count, and
\* no batch is returned, whatever the header's field count.
C6_FieldCountError ==
    (Branch = "csv" /\ Len(last) > 0 /\ Len(last) # NumFields) =>
        /\ pc = "done"
        /\ record.nil
        /\ outcome.err = "expected fields"
        /\ outcome.row > 0
        /\ outcome.exp = NumFields
        /\ outcome.got = Len(last)

\* The instants of the RFC 3339 literals, worked out by hand: whole seconds
\* since the epoch (rounded down) and the nanoseconds past them.
InstantOf(l) ==
    CASE l = TS_EXACT -> [sec |-> 1704067201, nsec |-> 0]
      [] l = TS_FRAC -> [sec |-> 1704067201, nsec |-> 999999900]
      [] OTHER -> [sec |-> -1, nsec |-> 500000400]

\* The projection by truncation toward zero: the floor, and one unit more
\* for an instant before the epoch that is not a whole number of units.
TruncEpoch(unit, tm) ==
    LET k == NanosPerUnit(unit)
        b == tm.nsec \div k
    IN  IF tm.sec < 0 /\ tm.nsec % k # 0
        THEN IF b + 1 = UnitsPerSecond(unit) THEN TsV(tm.sec + 1, 0, unit)
             ELSE TsV(tm.sec, b + 1, unit)
        ELSE TsV(tm.sec, b, unit)

\* Entry k of column i came from an RFC 3339 literal.
FromTimestamp(i, k) ==
    /\ schema[i].type.id = "Timestamp"
    /\ RawAt(consumed[k], i).k = "str"
    /\ RawAt(consumed[k], i).s \in {TS_EXACT, TS_FRAC, TS_PRE}

StoredTimestamps ==
    {<<i, k>> \in (1..NumFields) \X (1..Len(consumed)) :
        RowAdapter /\ (Building \/ ~record.nil) /\ FromTimestamp(i, k)}

\* C7 as claimed: the stored value is the instant truncated toward zero.
C7_Original ==
    \A p \in StoredTimestamps :
        Columns[p[1]].vals[p[2]] =
            TruncEpoch(schema[p[1]].type.unit, InstantOf(RawAt(consumed[p[2]], p[1]).s))

\* C7 amended: in both row adapters the stored value is the greatest whole
\* number of units not after the instant (the floor): sec * U + b with
\* b units <= nsec < b + 1 units; 2024-01-01T00:00:01Z gives 1704067201
\* seconds and 1704067201 * 10^6 + 0 microseconds.
C7_FloorProjection ==
    \A p \in StoredTimestamps :
        LET unit == schema[p[1]].type.unit
            lit == RawAt(consumed[p[2]], p[1]).s
            v == Columns[p[1]].vals[p[2]]
        IN  /\ v.k = "ts"
            /\ v.s = unit
            /\ v.a = InstantOf(lit).sec
            /\ v.b >= 0
            /\ v.b * NanosPerUnit(unit) <= InstantOf(lit).nsec
            /\ InstantOf(lit).nsec < (v.b + 1) * NanosPerUnit(unit)
            /\ (lit = TS_EXACT /\ unit \in {"s", "us"}) => v = TsV(1704067201, 0, unit)

C7_Witness ==
    /\ ~record.nil
    /\ \E p \in StoredTimestamps :
          /\ RawAt(consumed[p[2]], p[1]).s = TS_PRE
          /\ schema[p[1]].type.unit = "ms"
          /\ record.cols[p[1]].vals[p[2]] = TsV(-1, 500, "ms")

\* The rows of the batches before batch k
RECURSIVE RowsBefore(_, _)
RowsBefore(recs, k) == IF k = 1 THEN 0 ELSE RowsBefore(recs, k - 1) + recs[k - 1].rows

Concatenated == pc = "concatenated" /\ Len(allBatches) > 0 /\ outcome.kind = "ok"

\* C8: concatRecords over a non-empty sequence of batches of the target
\* schema lays column i of the inputs end to end in input order, nulls
\* where they were, with the sum of the row counts; and concatenating
\* (all but the last, concatenated) with the last equals concatenating the
\* first with (all but the first, concatenated).
C8_OrderPreservingAppend ==
    Concatenated =>
        LET n == Len(allBatches)
            front == concatRecords(schema, SubSeq(allBatches, 1, n - 1), FALSE).rec
            rest == concatRecords(schema, Tail(allBatches), FALSE).rec
        IN  /\ record.rows = RowsBefore(allBatches, n + 1)
            /\ \A i \in 1..NumFields :
                  /\ Len(record.cols[i].vals) = record.rows
                  /\ \A k \in 1..n : \A r \in 1..allBatches[k].rows :
                        record.cols[i].vals[RowsBefore(allBatches, k) + r]
                            = allBatches[k].cols[i].vals[r]
            /\ n >= 2 =>
                  /\ concatRecords(schema, <<front, allBatches[n]>>, FALSE).rec = record
                  /\ concatRecords(schema, <<allBatches[1], rest>>, FALSE).rec = record

C8_Witness ==
    /\ Concatenated
    /\ Len(allBatches) = 4
    /\ NumFields >= 1
    /\ record.rows >= 3
    /\ record.cols[1].vals[1] # record.cols[1].vals[2]
    /\ \E r \in 1..record.rows : record.cols[1].vals[r] = NullV

\* C9: in the foreign-batch adapter concatRecords is only called with a
\* non-empty sequence of batches of the target schema: the batches read, in
\* source order, each replaced by CoerceRecord's batch when its schema is
\* not the target's; a batch CoerceRecord rejects aborts the run, and a
\* source without batches fails without a call of concatRecords.
C9_ConcatOnlyConformant ==
    Branch = "orc" =>
        /\ \A c \in 1..Len(concatenated) :
              /\ Len(concatenated[c]) > 0
              /\ concatenated[c] = allBatches
              /\ \A k \in 1..Len(concatenated[c]) :
                    SchemaEqual(concatenated[c][k].schema, schema)
        /\ Len(concatenated) <= 1
        /\ Len(allBatches) = Len(consumed)
        /\ \A k \in 1..Len(consumed) :
              allBatches[k] = IF SchemaEqual(consumed[k].schema, schema) THEN consumed[k]
                              ELSE CoerceRecord(schema, consumed[k]).rec
        /\ (DOMAIN last # {} /\ ~SchemaEqual(last.schema, schema)
              /\ CoerceRecord(schema, last).kind # "ok") =>
              /\ pc = "done"
              /\ outcome = CoerceRecord(schema, last)
              /\ record.nil
              /\ concatenated = <<>>
              /\ sink = <<>>
        /\ (pc \in {"write", "done"} /\ Len(consumed) = 0) =>
              /\ outcome.kind = "err"
              /\ concatenated = <<>>
              /\ sink = <<>>

C9_Witness ==
    /\ Branch = "orc"
    /\ Len(concatenated) = 1
    /\ Len(consumed) = 2
    /\ ~SchemaEqual(consumed[1].schema, schema)
    /\ SchemaEqual(consumed[2].schema, schema)
    /\ consumed[1].rows = 1
    /\ NumFields = 2

\* A row the schema accepts: as many fields as the schema, each coercible
ValidRow(row) ==
    /\ Len(row) = NumFields
    /\ \A i \in 1..NumFields : CoerceText(schema[i], row[i]).st # "err"

\* C10 as claimed: after the header, every valid data row read is appended,
\* in source order, as the coercion of its fields; the batch has one row
\* per data row.
C10_ValidRowsInOrder ==
    Branch = "csv" =>
        /\ (Len(last) > 0 /\ ValidRow(last)) =>
              /\ Len(consumed) > 0
              /\ consumed[Len(consumed)] = last
              /\ ~(outcome.kind = "err" /\ outcome.row > 0)
        /\ (Building \/ ~record.nil) =>
              \A i \in 1..NumFields :
                  /\ Len(Columns[i].vals) = Len(consumed)
                  /\ \A k \in 1..Len(consumed) :
                        Columns[i].vals[k] = CoerceText(schema[i], consumed[k][i]).v
        /\ (pc \in {"write", "done"} /\ outcome.kind = "ok") => record.rows = Len(consumed)

\* The objects among the top-level values of the file, in order
RECURSIVE ObjectsOf(_)
ObjectsOf(values) ==
    IF Len(values) = 0 THEN <<>>
    ELSE IF Head(values).t = "object" THEN <<Head(values).rec>> \o ObjectsOf(Tail(values))
    ELSE ObjectsOf(Tail(values))

\* C11 as claimed: the fallback runs only after the decoding of the file
\* as one array failed, from the start of the file and with records empty;
\* the records it leaves, and the rows made of them, are exactly the
\* objects of the file in order; and when it fails the run ends with the
\* decode error, with no batch and nothing written.
C11_FallbackExact ==
    Branch = "json" =>
        /\ (pc = "json_ndjson" \/ stage \in {"rewound", "ndjson"}) =>
              ~DecodeArray(schema, doc, 0).ok
        /\ pc = "json_ndjson" => (offset = 0 /\ records = <<>>)
        /\ stage = "ndjson" =>
              /\ records = ObjectsOf(doc)
              /\ Len(consumed) <= Len(records)
              /\ \A k \in 1..Len(consumed) : consumed[k] = records[k]
              /\ ~record.nil => record.rows = Len(ObjectsOf(doc))
        /\ (stage = "rewound" /\ pc = "done") =>
              /\ outcome = Err("JSON decode error")
              /\ record.nil
              /\ consumed = <<>>
              /\ sink = <<>>

\* The blob adapter ran: last holds what os.ReadFile gave for each mapping.
BlobRan == Branch = "blob" /\ pc \in {"write", "done"} /\ DOMAIN last = inv.blobs

\* A mapped field of the schema whose file could not be read
BlobReadFailed == \E i \in 1..NumFields : schema[i].name \in inv.blobs /\ ~last[schema[i].name].ok

\* C12 as claimed: the blob adapter returns a batch of one row, every
\* column of one entry: the content read for a mapped field (bytes for
\* Binary and LargeBinary, a string for String), a null for a field without
\* mapping whatever its nullability; when a mapped file cannot be read the
\* run ends with an error, without batch and with nothing written.
C12_BlobOneRow ==
    BlobRan =>
        IF BlobReadFailed
        THEN record.nil /\ outcome.kind = "err" /\ sink = <<>>
        ELSE /\ ~record.nil
             /\ record.rows = 1
             /\ Len(record.cols) = NumFields
             /\ \A i \in 1..NumFields :
                   /\ Len(record.cols[i].vals) = 1
                   /\ schema[i].name \notin inv.blobs => record.cols[i].vals[1] = NullV
                   /\ (schema[i].name \in inv.blobs /\ schema[i].type = String) =>
                         record.cols[i].vals[1] = StrV(last[schema[i].name].data)
                   /\ (schema[i].name \in inv.blobs /\ schema[i].type \in {Binary, LargeBinary}) =>
                         record.cols[i].vals[1] = BytesV(last[schema[i].name].data)

=============================================================================
